---- MODULE Spec2Model ----
(***************************************************************************)
(* Model of velox/vector/arrow/Bridge.cpp: the bridge between Velox types  *)
(* and vectors and the Arrow C data interface (ArrowSchema / ArrowArray).  *)
(*                                                                         *)
(* Pointers are natural numbers, 0 is nullptr.  ArrowSchema structs live   *)
(* in a heap (a sequence of structs indexed by address); struct 1 is the   *)
(* caller's ArrowSchema.  The bridge holder made for struct n has address  *)
(* n; ArrowSchema.children points at the childrenRaw vector of a holder.   *)
(* C strings are sequences of one-character strings.                       *)
(*                                                                         *)
(* Beside the structs and holders a heap records what happened to them:    *)
(* calls[n] counts the invocations of a release callback on struct n,      *)
(* destroyed counts the deletions of a holder, built is the set of structs *)
(* an export completed, freed the structs whose memory was given back, ub  *)
(* whether freed memory was used or freed again, fatal whether a           *)
(* VELOX_CHECK_NULL of a release procedure failed, log the structs in the  *)
(* order in which a release procedure marked them released.                *)
(***************************************************************************)
EXTENDS Integers, Sequences, FiniteSets, TLC

(***************************************************************************)
(* Bounds of the model.                                                    *)
(***************************************************************************)
\* Largest number of fields of an enumerated RowType.
MaxFields == 2
\* How many times the caller invokes a release callback on one struct.
MaxReleases == 2

(***************************************************************************)
(* Types (velox TypePtr): kind, field names (ROW only) and children.       *)
(***************************************************************************)
NullStr == <<"nullptr">>

ScalarKinds ==
  {"BOOLEAN", "TINYINT", "SMALLINT", "INTEGER", "BIGINT", "REAL", "DOUBLE",
   "VARCHAR", "VARBINARY", "TIMESTAMP", "DATE"}

\* Kinds exportArrowFormatStr has no case for.
UnsupportedKinds == {"UNKNOWN"}

Scalar(k) == [kind |-> k, names |-> <<>>, children |-> <<>>]
ARRAY(c) == [kind |-> "ARRAY", names |-> <<>>, children |-> <<c>>]
MAP(k, v) == [kind |-> "MAP", names |-> <<>>, children |-> <<k, v>>]
ROW(ns, cs) == [kind |-> "ROW", names |-> ns, children |-> cs]

NoType == [kind |-> "NONE", names |-> <<>>, children |-> <<>>]

LeafTypes == {Scalar(k) : k \in ScalarKinds \cup UnsupportedKinds}

FieldNames == {<<>>, <<"a", "b">>}

\* The children the enumerated composites are built over: leaves and
\* composites, one of them with an unsupported child.
ChildTypes ==
  {Scalar("INTEGER"), Scalar("VARCHAR"), Scalar("DATE"), Scalar("UNKNOWN"),
   ARRAY(Scalar("BIGINT")), ARRAY(Scalar("UNKNOWN")),
   ROW(<<<<"a">>, <<"b">>>>, <<Scalar("REAL"), Scalar("TIMESTAMP")>>),
   ROW(<<<<"a">>, <<"b">>>>, <<Scalar("REAL"), Scalar("UNKNOWN")>>)}

\* The field types of the enumerated RowTypes.
FieldTypes ==
  {Scalar("INTEGER"), Scalar("VARCHAR"), Scalar("UNKNOWN"),
   ARRAY(Scalar("BIGINT")),
   ROW(<<<<"a">>, <<"b">>>>, <<Scalar("REAL"), Scalar("UNKNOWN")>>)}

RowTypes ==
  UNION {{ROW(ns, cs) : ns \in [1..k -> FieldNames], cs \in [1..k -> FieldTypes]}
         : k \in 0..MaxFields}

AllTypes ==
  LeafTypes
    \cup {ARRAY(c) : c \in LeafTypes \cup ChildTypes}
    \cup {MAP(k, v) : k \in ChildTypes, v \in ChildTypes}
    \cup RowTypes

\* Type::size(): the number of children.
NumChildren(type) == Len(type.children)

\* Type::isPrimitiveType().
IsPrimitiveType(type) == type.kind \in ScalarKinds

(***************************************************************************)
(* C strings.                                                              *)
(***************************************************************************)
\* s[i] of a NUL-terminated string, i counted from 0.
Ch(s, i) == IF i + 1 <= Len(s) THEN s[i + 1] ELSE "NUL"

\* What a reader of the pointer std::string::data() sees: the characters
\* before the first NUL.
RECURSIVE CStr(_)
CStr(s) ==
  IF s = <<>> \/ Head(s) = "NUL" THEN <<>> ELSE <<Head(s)>> \o CStr(Tail(s))

(***************************************************************************)
(* exportArrowFormatStr.                                                   *)
(***************************************************************************)
\* A table with the codes of float32 and float64 exchanged.
exportArrowFormatStrSwapped(kind) ==
  CASE kind = "BOOLEAN" -> <<"b">>
    [] kind = "TINYINT" -> <<"c">>
    [] kind = "SMALLINT" -> <<"s">>
    [] kind = "INTEGER" -> <<"i">>
    [] kind = "BIGINT" -> <<"l">>
    [] kind = "REAL" -> <<"g">>
    [] kind = "DOUBLE" -> <<"f">>
    [] kind = "VARCHAR" -> <<"u">>
    [] kind = "VARBINARY" -> <<"z">>
    [] kind = "TIMESTAMP" -> <<"t", "t", "n">>
    [] kind = "DATE" -> <<"t", "d", "D">>
    [] kind = "ARRAY" -> <<"+", "L">>
    [] kind = "MAP" -> <<"+", "m">>
    [] kind = "ROW" -> <<"+", "s">>
    [] OTHER -> NullStr

exportArrowFormatStr(kind) ==
  CASE kind = "BOOLEAN" -> <<"b">>
    [] kind = "TINYINT" -> <<"c">>
    [] kind = "SMALLINT" -> <<"s">>
    [] kind = "INTEGER" -> <<"i">>
    [] kind = "BIGINT" -> <<"l">>
    [] kind = "REAL" -> <<"f">>
    [] kind = "DOUBLE" -> <<"g">>
    [] kind = "VARCHAR" -> <<"u">>
    [] kind = "VARBINARY" -> <<"z">>
    [] kind = "TIMESTAMP" -> <<"t", "t", "n">>
    [] kind = "DATE" -> <<"t", "d", "D">>
    [] kind = "ARRAY" -> <<"+", "L">>
    [] kind = "MAP" -> <<"+", "m">>
    [] kind = "ROW" -> <<"+", "s">>
    [] OTHER -> NullStr

\* The kinds for which exportArrowFormatStr does not throw VELOX_NYI.
HasFormat(kind) == kind \in ScalarKinds \cup {"ARRAY", "MAP", "ROW"}

(***************************************************************************)
(* The ArrowSchema heap.                                                   *)
(***************************************************************************)
ARROW_FLAG_NULLABLE == 2

\* A zero-initialised ArrowSchema.
ZeroSchema ==
  [format |-> NullStr, name |-> NullStr, flags |-> 0, n_children |-> 0,
   children |-> 0, dictionary |-> 0, release |-> "null", private_data |-> 0]

\* No VeloxToArrowSchemaBridgeHolder at this address (yet).
NoHolder ==
  [state |-> "none", destroyed |-> 0, childrenRaw |-> <<>>,
   childrenOwned |-> <<>>, rowType |-> FALSE]

\* std::make_unique<VeloxToArrowSchemaBridgeHolder>() and the two resize().
NewSchemaHolder(numChildren, isRow) ==
  [state |-> "alive", destroyed |-> 0,
   childrenRaw |-> [i \in 1..numChildren |-> 0],
   childrenOwned |-> [i \in 1..numChildren |-> 0],
   rowType |-> isRow]

\* The heap with the caller's ArrowSchema alone.
EmptySchemaHeap ==
  [node |-> <<ZeroSchema>>, holder |-> <<NoHolder>>, calls |-> <<0>>,
   built |-> {}, freed |-> {}, ub |-> FALSE, fatal |-> FALSE, log |-> <<>>]

\* new ArrowSchema: the address of the next struct.
NextSchema(S) == Len(S.node) + 1

AllocSchema(S, init) ==
  [S EXCEPT !.node = Append(@, init), !.holder = Append(@, NoHolder),
            !.calls = Append(@, 0)]

\* ~VeloxToArrowSchemaBridgeHolder: the owned child structs are freed (their
\* release callbacks are not run).  Deleting nullptr does nothing; deleting
\* a holder twice is a double free.
DeleteSchemaHolder(S, h) ==
  IF h = 0 THEN S
  ELSE IF S.holder[h].state # "alive"
       THEN [S EXCEPT !.holder[h].destroyed = @ + 1, !.ub = TRUE]
       ELSE [S EXCEPT !.holder[h].state = "destroyed",
                      !.holder[h].destroyed = @ + 1,
                      !.freed = @ \cup ({S.holder[h].childrenOwned[i] :
                                          i \in 1..Len(S.holder[h].childrenOwned)}
                                         \ {0})]

\* arrowSchema.children[i] (i from 1): read through the children pointer.
ChildPtr(S, n, i) ==
  LET arr == S.holder[S.node[n].children].childrenRaw
  IN IF S.node[n].children # 0 /\ i <= Len(arr) THEN arr[i] ELSE 0

(***************************************************************************)
(* bridgeSchemaRelease.                                                    *)
(***************************************************************************)
\* The early return of bridgeSchemaRelease: a null struct or a null release.
SchemaAlreadyReleased(S, n) == n = 0 \/ S.node[n].release = "null"

\* bridgeSchemaRelease that forgets to mark the struct released.
MarkSchemaReleasedForgotten(S, n) == S

\* "Finally, mark the array as released."
MarkSchemaReleased(S, n) ==
  [S EXCEPT !.node[n].release = "null", !.node[n].private_data = 0,
            !.log = Append(@, n)]

RECURSIVE bridgeSchemaRelease(_, _)

\* child->release(child): a call through the struct's release pointer.  Of a
\* callback that is not the bridge's the model keeps the call alone: such a
\* callback returns with the struct's release still set.
InvokeSchemaRelease(S, n) ==
  IF S.node[n].release = "bridgeSchemaRelease"
  THEN bridgeSchemaRelease(S, n)
  ELSE [S EXCEPT !.calls[n] = @ + 1]

\* A release procedure that does not recurse down to the children.
ReleaseSchemaChildrenSkipped(S, n, i) == S

\* The loop over the children, from child i on.  VELOX_CHECK_NULL throws
\* when a child's callback left the child's release set.
RECURSIVE ReleaseSchemaChildren(_, _, _)
ReleaseSchemaChildren(S, n, i) ==
  IF S.fatal \/ i > S.node[n].n_children THEN S
  ELSE LET child == ChildPtr(S, n, i)
       IN IF child # 0 /\ S.node[child].release # "null"
          THEN LET S1 == InvokeSchemaRelease(S, child)
               IN IF S1.node[child].release # "null"
                  THEN [S1 EXCEPT !.fatal = TRUE]
                  ELSE ReleaseSchemaChildren(S1, n, i + 1)
          ELSE ReleaseSchemaChildren(S, n, i + 1)

\* "Release dictionary."
ReleaseSchemaDictionary(S, n) ==
  LET dict == S.node[n].dictionary
  IN IF S.fatal \/ dict = 0 \/ S.node[dict].release = "null" THEN S
     ELSE LET S1 == InvokeSchemaRelease(S, dict)
          IN IF S1.node[dict].release # "null"
             THEN [S1 EXCEPT !.fatal = TRUE] ELSE S1

\* Reading a struct that was freed, or a children array whose holder was
\* destroyed, is a use after free.
SchemaUseAfterFree(S, n) ==
  \/ n \in S.freed
  \/ /\ S.node[n].n_children > 0
     /\ S.node[n].children # 0
     /\ S.holder[S.node[n].children].state = "destroyed"

bridgeSchemaRelease(S, n) ==
  LET S0 == [S EXCEPT !.calls[n] = @ + 1]
  IN IF SchemaAlreadyReleased(S0, n) THEN S0
     ELSE LET S1 == [S0 EXCEPT !.ub = @ \/ SchemaUseAfterFree(S0, n)]
              S2 == ReleaseSchemaChildren(S1, n, 1)
              S3 == ReleaseSchemaDictionary(S2, n)
          IN IF S3.fatal THEN S3
             ELSE MarkSchemaReleased(
                    DeleteSchemaHolder(S3, S3.node[n].private_data), n)

(***************************************************************************)
(* exportToArrow(const TypePtr&, ArrowSchema&).                            *)
(***************************************************************************)
\* A header that leaves flags and dictionary as the caller passed them.
SetSchemaHeaderFormatOnly(S, n, type) ==
  [S EXCEPT !.node[n].format = exportArrowFormatStr(type.kind),
            !.node[n].name = NullStr]

\* The assignments before the holder is allocated.
SetSchemaHeader(S, n, type) ==
  [S EXCEPT !.node[n].format = exportArrowFormatStr(type.kind),
            !.node[n].name = NullStr,
            !.node[n].dictionary = 0,
            !.node[n].flags = ARROW_FLAG_NULLABLE]

\* "Set release callback."
InstallSchemaRelease(S, n) ==
  [S EXCEPT !.node[n].release = "bridgeSchemaRelease",
            !.node[n].private_data = n,
            !.built = @ \cup {n}]

\* A catch block that rethrows without releasing anything.
ReleaseBuiltChildrenSkipped(S, n, j, i) == S

\* The catch block: release the children 0..i-1 that were built (j from 1).
RECURSIVE ReleaseBuiltChildren(_, _, _, _)
ReleaseBuiltChildren(S, n, j, i) ==
  IF j >= i THEN S
  ELSE ReleaseBuiltChildren(InvokeSchemaRelease(S, ChildPtr(S, n, j)), n, j + 1, i)

\* A loop that links the child without giving it its field name.
LinkSchemaChildUnnamed(S, n, i, c, type) ==
  [S EXCEPT !.holder[S.node[n].children].childrenRaw[i] = c]

\* currentSchema->name = rowType->nameOf(i).data(), and
\* arrowSchema.children[i] = currentSchema.get().
LinkSchemaChild(S, n, i, c, type) ==
  LET S1 == IF S.holder[n].rowType
            THEN [S EXCEPT !.node[c].name = CStr(type.names[i])]
            ELSE S
  IN [S1 EXCEPT !.holder[S1.node[n].children].childrenRaw[i] = c]

RECURSIVE exportToArrowType(_, _, _)

\* The loop over the children, from child i on (i from 1).
RECURSIVE ExportSchemaChildren(_, _, _, _)
ExportSchemaChildren(S, n, type, i) ==
  IF i > NumChildren(type) THEN [ok |-> TRUE, S |-> S]
  ELSE LET c == NextSchema(S)
           S1 == [AllocSchema(S, ZeroSchema) EXCEPT !.holder[n].childrenOwned[i] = c]
           r == exportToArrowType(S1, c, type.children[i])
       IN IF r.ok
          THEN ExportSchemaChildren(LinkSchemaChild(r.S, n, i, c, type), n, type, i + 1)
          ELSE [ok |-> FALSE, S |-> ReleaseBuiltChildren(r.S, n, 1, i)]

\* Exports `type` into the struct at n.  ok is FALSE when the call throws;
\* the unique_ptr then destroys the holder on the way out.
exportToArrowType(S, n, type) ==
  IF ~HasFormat(type.kind) THEN [ok |-> FALSE, S |-> S]
  ELSE LET numChildren == NumChildren(type)
           S1 == [SetSchemaHeader(S, n, type) EXCEPT
                    !.holder[n] = NewSchemaHolder(numChildren, type.kind = "ROW")]
       IN IF numChildren > 0
          THEN LET S2 == [S1 EXCEPT !.node[n].children = n,
                                    !.node[n].n_children = numChildren]
                   r == ExportSchemaChildren(S2, n, type, 1)
               IN IF r.ok
                  THEN [ok |-> TRUE, S |-> InstallSchemaRelease(r.S, n)]
                  ELSE [ok |-> FALSE, S |-> DeleteSchemaHolder(r.S, n)]
          ELSE [ok |-> TRUE,
                S |-> InstallSchemaRelease(
                        [S1 EXCEPT !.node[n].n_children = 0,
                                   !.node[n].children = 0], n)]

(***************************************************************************)
(* importFromArrow(const ArrowSchema&).                                    *)
(***************************************************************************)
ImportFailed == [ok |-> FALSE, type |-> NoType]
Imported(type) == [ok |-> TRUE, type |-> type]

\* The name the struct-case gives child c: its name, or "" for nullptr.
ImportedName(S, c) == IF S.node[c].name # NullStr THEN S.node[c].name ELSE <<>>

RECURSIVE importFromArrow(_, _)

\* The struct case: the loop collecting child types and names, from child i.
RECURSIVE ImportRowChildren(_, _, _, _, _)
ImportRowChildren(S, n, i, names, types) ==
  IF i > S.node[n].n_children THEN Imported(ROW(names, types))
  ELSE LET c == ChildPtr(S, n, i)
       IN IF c = 0 THEN ImportFailed
          ELSE LET r == importFromArrow(S, c)
               IN IF ~r.ok THEN ImportFailed
                  ELSE ImportRowChildren(S, n, i + 1,
                         Append(names, ImportedName(S, c)), Append(types, r.type))

importFromArrow(S, n) ==
  LET format == S.node[n].format
      c0 == Ch(format, 0)
      c1 == Ch(format, 1)
      c2 == Ch(format, 2)
  IN IF format = NullStr THEN ImportFailed
     ELSE CASE c0 = "b" -> Imported(Scalar("BOOLEAN"))
            [] c0 = "c" -> Imported(Scalar("TINYINT"))
            [] c0 = "s" -> Imported(Scalar("SMALLINT"))
            [] c0 = "i" -> Imported(Scalar("INTEGER"))
            [] c0 = "l" -> Imported(Scalar("BIGINT"))
            [] c0 = "f" -> Imported(Scalar("REAL"))
            [] c0 = "g" -> Imported(Scalar("DOUBLE"))
            [] c0 \in {"u", "U"} -> Imported(Scalar("VARCHAR"))
            [] c0 \in {"z", "Z"} -> Imported(Scalar("VARBINARY"))
            [] c0 = "t" ->
                 IF c1 = "t" /\ c2 = "n" THEN Imported(Scalar("TIMESTAMP"))
                 ELSE IF c1 = "d" /\ c2 = "D" THEN Imported(Scalar("DATE"))
                 ELSE ImportFailed
            [] c0 = "+" /\ c1 = "L" ->
                 IF S.node[n].n_children # 1 \/ ChildPtr(S, n, 1) = 0
                 THEN ImportFailed
                 ELSE LET r == importFromArrow(S, ChildPtr(S, n, 1))
                      IN IF r.ok THEN Imported(ARRAY(r.type)) ELSE ImportFailed
            [] c0 = "+" /\ c1 = "m" ->
                 IF \/ S.node[n].n_children # 2
                    \/ ChildPtr(S, n, 1) = 0
                    \/ ChildPtr(S, n, 2) = 0
                 THEN ImportFailed
                 ELSE LET k == importFromArrow(S, ChildPtr(S, n, 1))
                          v == importFromArrow(S, ChildPtr(S, n, 2))
                      IN IF k.ok /\ v.ok THEN Imported(MAP(k.type, v.type))
                         ELSE ImportFailed
            [] c0 = "+" /\ c1 = "s" -> ImportRowChildren(S, n, 1, <<>>, <<>>)
            [] OTHER -> ImportFailed

(***************************************************************************)
(* Vectors (velox VectorPtr) as the bridge sees them.                      *)
(***************************************************************************)
\* Largest size() of an enumerated vector.
MaxSize == 1

\* The kinds exportFlatVector has a case for.
FlatKinds ==
  {"BOOLEAN", "TINYINT", "SMALLINT", "INTEGER", "BIGINT", "REAL", "DOUBLE"}

NoVector ==
  [typeKind |-> "NONE", encoding |-> "NONE", size |-> 0, rawNulls |-> "nullptr",
   nullCount |-> -1, values |-> "nullptr"]

\* rawNulls() is nullptr for a vector without a nulls buffer; getNullCount()
\* is the cached count, -1 standing for std::nullopt.  A cached count above
\* zero needs a nulls buffer.
Vectors ==
  {v \in [typeKind : FlatKinds \cup {"VARCHAR"}, encoding : {"FLAT", "DICTIONARY"},
          size : 0..MaxSize, rawNulls : {"nullptr", "nulls"},
          nullCount : -1..MaxSize, values : {"values"}] :
     /\ v.nullCount <= v.size
     /\ v.nullCount > 0 => v.rawNulls # "nullptr"}

(***************************************************************************)
(* The ArrowArray heap.  Struct 1 is the caller's ArrowArray.  buffers     *)
(* points at the buffers array of a holder; children points at an array of *)
(* struct pointers in ptrs.                                                *)
(***************************************************************************)
kMaxBuffers == 2

ZeroArray ==
  [length |-> 0, null_count |-> 0, offset |-> 0, n_buffers |-> 0, buffers |-> 0,
   n_children |-> 0, children |-> 0, dictionary |-> 0, release |-> "null",
   private_data |-> 0]

NoArrayHolder ==
  [state |-> "none", destroyed |-> 0, vector |-> NoVector,
   buffers |-> [i \in 1..kMaxBuffers |-> "uninitialized"]]

\* std::make_unique<VeloxToArrowBridgeHolder>() and bridgeHolder->vector = vector.
NewArrayHolder(v) ==
  [state |-> "alive", destroyed |-> 0, vector |-> v,
   buffers |-> [i \in 1..kMaxBuffers |-> "uninitialized"]]

EmptyArrayHeap ==
  [node |-> <<ZeroArray>>, holder |-> <<NoArrayHolder>>, calls |-> <<0>>,
   ptrs |-> <<>>, vectorRefs |-> 0, freed |-> {}, ub |-> FALSE, fatal |-> FALSE,
   log |-> <<>>]

NextArray(A) == Len(A.node) + 1

AllocArray(A, init) ==
  [A EXCEPT !.node = Append(@, init), !.holder = Append(@, NoArrayHolder),
            !.calls = Append(@, 0)]

\* A delete that leaves the holder's vector referenced.
DeleteArrayHolderKeepsVector(A, h) ==
  IF h = 0 THEN A
  ELSE IF A.holder[h].state # "alive"
       THEN [A EXCEPT !.holder[h].destroyed = @ + 1, !.ub = TRUE]
       ELSE [A EXCEPT !.holder[h].state = "destroyed",
                      !.holder[h].destroyed = @ + 1]

\* ~VeloxToArrowBridgeHolder: drops the holder's reference to the vector.
DeleteArrayHolder(A, h) ==
  IF h = 0 THEN A
  ELSE IF A.holder[h].state # "alive"
       THEN [A EXCEPT !.holder[h].destroyed = @ + 1, !.ub = TRUE]
       ELSE [A EXCEPT !.holder[h].state = "destroyed",
                      !.holder[h].destroyed = @ + 1,
                      !.vectorRefs = @ - 1]

\* arrowArray.children[i] (i from 1).
ArrayChildPtr(A, n, i) ==
  LET arr == A.ptrs[A.node[n].children]
  IN IF A.node[n].children # 0 /\ i <= Len(arr) THEN arr[i] ELSE 0

(***************************************************************************)
(* bridgeRelease.                                                          *)
(***************************************************************************)
ArrayAlreadyReleased(A, n) == n = 0 \/ A.node[n].release = "null"

MarkArrayReleased(A, n) ==
  [A EXCEPT !.node[n].release = "null", !.node[n].private_data = 0,
            !.log = Append(@, n)]

RECURSIVE bridgeRelease(_, _)

InvokeArrayRelease(A, n) ==
  IF A.node[n].release = "bridgeRelease"
  THEN bridgeRelease(A, n)
  ELSE [A EXCEPT !.calls[n] = @ + 1]

\* A loop without the VELOX_CHECK_NULL: it goes on after a callback that left
\* the child's release set.
RECURSIVE ReleaseArrayChildrenUnchecked(_, _, _)
ReleaseArrayChildrenUnchecked(A, n, i) ==
  IF i > A.node[n].n_children THEN A
  ELSE LET child == ArrayChildPtr(A, n, i)
       IN IF child # 0 /\ A.node[child].release # "null"
          THEN ReleaseArrayChildrenUnchecked(InvokeArrayRelease(A, child), n, i + 1)
          ELSE ReleaseArrayChildrenUnchecked(A, n, i + 1)

RECURSIVE ReleaseArrayChildren(_, _, _)
ReleaseArrayChildren(A, n, i) ==
  IF A.fatal \/ i > A.node[n].n_children THEN A
  ELSE LET child == ArrayChildPtr(A, n, i)
       IN IF child # 0 /\ A.node[child].release # "null"
          THEN LET A1 == InvokeArrayRelease(A, child)
               IN IF A1.node[child].release # "null"
                  THEN [A1 EXCEPT !.fatal = TRUE]
                  ELSE ReleaseArrayChildren(A1, n, i + 1)
          ELSE ReleaseArrayChildren(A, n, i + 1)

ReleaseArrayDictionary(A, n) ==
  LET dict == A.node[n].dictionary
  IN IF A.fatal \/ dict = 0 \/ A.node[dict].release = "null" THEN A
     ELSE LET A1 == InvokeArrayRelease(A, dict)
          IN IF A1.node[dict].release # "null"
             THEN [A1 EXCEPT !.fatal = TRUE] ELSE A1

bridgeRelease(A, n) ==
  LET A0 == [A EXCEPT !.calls[n] = @ + 1]
  IN IF ArrayAlreadyReleased(A0, n) THEN A0
     ELSE LET A1 == [A0 EXCEPT !.ub = @ \/ n \in A0.freed]
              A2 == ReleaseArrayChildren(A1, n, 1)
              A3 == ReleaseArrayDictionary(A2, n)
          IN IF A3.fatal THEN A3
             ELSE MarkArrayReleased(
                    DeleteArrayHolder(A3, A3.node[n].private_data), n)

(***************************************************************************)
(* exportToArrow(const VectorPtr&, ArrowArray&) and exportFlatVector.      *)
(***************************************************************************)
\* A header that exports an unknown null count as zero.
SetArrayHeaderUnknownAsZero(A, n, v) ==
  [A EXCEPT !.holder[n] = NewArrayHolder(v),
            !.vectorRefs = @ + 1,
            !.node[n].n_buffers = kMaxBuffers,
            !.node[n].buffers = n,
            !.node[n].release = "bridgeRelease",
            !.node[n].length = v.size,
            !.node[n].null_count = IF v.nullCount = -1 THEN 0 ELSE v.nullCount,
            !.node[n].offset = 0,
            !.holder[n].buffers[1] = v.rawNulls]

\* The assignments up to arrowArray.buffers[0] = vector->rawNulls().
SetArrayHeader(A, n, v) ==
  [A EXCEPT !.holder[n] = NewArrayHolder(v),
            !.vectorRefs = @ + 1,
            !.node[n].n_buffers = kMaxBuffers,
            !.node[n].buffers = n,
            !.node[n].release = "bridgeRelease",
            !.node[n].length = v.size,
            !.node[n].null_count = v.nullCount,
            !.node[n].offset = 0,
            !.holder[n].buffers[1] = v.rawNulls]

\* exportFlatVector that stores the values pointer in the nulls slot.
exportFlatVectorWrongSlot(A, n, v) ==
  IF v.typeKind \in FlatKinds
  THEN [ok |-> TRUE, A |-> [A EXCEPT !.holder[A.node[n].buffers].buffers[1] = v.values]]
  ELSE [ok |-> FALSE, A |-> A]

\* exportFlatVector: ok is FALSE when it throws VELOX_NYI.
exportFlatVector(A, n, v) ==
  IF v.typeKind \in FlatKinds
  THEN [ok |-> TRUE, A |-> [A EXCEPT !.holder[A.node[n].buffers].buffers[2] = v.values]]
  ELSE [ok |-> FALSE, A |-> A]

\* "We release the unique_ptr since bridgeHolder will now be carried inside
\* ArrowArray."
AttachArrayHolder(A, n) ==
  [A EXCEPT !.node[n].n_children = 0,
            !.node[n].children = 0,
            !.node[n].dictionary = 0,
            !.node[n].private_data = n]

\* Exports v into the struct at n.  When the call throws, the unique_ptr
\* destroys the holder on the way out.
exportToArrowVector(A, n, v) ==
  LET A1 == SetArrayHeader(A, n, v)
      r == IF v.encoding = "FLAT" THEN exportFlatVector(A1, n, v)
           ELSE [ok |-> FALSE, A |-> A1]
  IN IF r.ok
     THEN [ok |-> TRUE, A |-> AttachArrayHolder(r.A, n)]
     ELSE [ok |-> FALSE, A |-> DeleteArrayHolder(r.A, n)]

(***************************************************************************)
(* importFromArrowImpl and createFlatVector.                               *)
(***************************************************************************)
\* Largest number of references the caller holds to one buffer view.
MaxRefs == 2
\* The number of threads that drop references.
MaxThreads == 2

\* What a read through a null or dangling buffers pointer can do.
UBOutcomes == {"crash", "nullptr", "garbage"}

\* bits::nbytes: the bytes that hold `bits` bits.
nbytes(bits) == (bits + 7) \div 8

\* Type::cppSizeInBytes(): sizeof the native type of a primitive kind.
cppSizeInBytes(kind) ==
  CASE kind \in {"BOOLEAN", "TINYINT"} -> 1
    [] kind = "SMALLINT" -> 2
    [] kind \in {"INTEGER", "REAL", "DATE"} -> 4
    [] kind \in {"BIGINT", "DOUBLE"} -> 8
    [] OTHER -> 16

NoBuffer == [ptr |-> "nullptr", size |-> 0, owner |-> FALSE]

\* BufferView<BufferViewReleaser>::create(buffer, length, releaser): no copy.
wrapInBufferView(buffer, length, owner) ==
  [ptr |-> buffer, size |-> length, owner |-> owner]

\* std::optional<int64_t>.
Nullopt == [has_value |-> FALSE, value |-> 0]
Optional(x) == [has_value |-> TRUE, value |-> x]

NoFlatVector ==
  [type |-> NoType, length |-> 0, nulls |-> NoBuffer, values |-> NoBuffer,
   nullCount |-> Nullopt]

\* createFlatVector: "nullCount == -1 ? std::nullopt : std::optional(nullCount)".
createFlatVector(type, nulls, length, values, nullCount) ==
  [type |-> type, length |-> length, nulls |-> nulls, values |-> values,
   nullCount |-> IF nullCount = -1 THEN Nullopt ELSE Optional(nullCount)]

\* arrowArray.buffers[i] (i from 0).  The array read is the one the buffers
\* pointer points at; reading through nullptr, or through a pointer into a
\* destroyed holder, is undefined and yields `ub`.
ReadBuffer(A, n, i, ub) ==
  LET b == A.node[n].buffers
  IN IF b = 0 \/ A.holder[b].state # "alive" THEN ub
     ELSE A.holder[b].buffers[i + 1]

Thrown == [status |-> "error", vector |-> NoFlatVector]
Crashed == [status |-> "crash", vector |-> NoFlatVector]

\* The checks before the schema is parsed (ok when none throws).
ImportHeaderOk(S, A) ==
  /\ S.node[1].release # "null"
  /\ A.node[1].release # "null"
  /\ A.node[1].dictionary = 0
  /\ A.node[1].n_children = 0 /\ A.node[1].children = 0
  /\ A.node[1].offset = 0
  /\ A.node[1].length >= 0

\* The n_buffers check, the values view and the vector.
ImportValues(A, type, nulls, owner, ub) ==
  IF A.node[1].n_buffers # 2 THEN Thrown
  ELSE LET b1 == ReadBuffer(A, 1, 1, ub)
       IN IF b1 = "crash" THEN Crashed
          ELSE [status |-> "ok",
                vector |-> createFlatVector(
                  type, nulls, A.node[1].length,
                  wrapInBufferView(b1, A.node[1].length * cppSizeInBytes(type.kind),
                                   owner),
                  A.node[1].null_count)]

\* A check that tolerates a nulls buffer beside a null_count of zero.
NullsBufferOkLenient(null_count, b0) == null_count # 0 => b0 # "nullptr"

\* The two checks on buffers[0]: it is set when null_count is not zero
\* (a count, or -1 for unknown), and nullptr when null_count is zero.
NullsBufferOk(null_count, b0) ==
  IF null_count # 0 THEN b0 # "nullptr" ELSE b0 = "nullptr"

\* A nulls view of one byte per element.
ImportNullsByteEach(null_count, b0, length, owner) ==
  IF null_count # 0 THEN wrapInBufferView(b0, length, owner) ELSE NoBuffer

\* The nulls buffer of the vector: a view of buffers[0], or nullptr.
ImportNulls(null_count, b0, length, owner) ==
  IF null_count # 0 THEN wrapInBufferView(b0, nbytes(length), owner) ELSE NoBuffer

\* importFromArrowImpl on the caller's structs (schema 1 of S, array 1 of A).
importFromArrowImpl(S, A, owner, ub) ==
  IF ~ImportHeaderOk(S, A) THEN Thrown
  ELSE LET t == importFromArrow(S, 1)
       IN IF ~t.ok \/ ~IsPrimitiveType(t.type) THEN Thrown
          ELSE LET b0 == ReadBuffer(A, 1, 0, ub)
               IN IF b0 = "crash" THEN Crashed
                  ELSE IF ~NullsBufferOk(A.node[1].null_count, b0) THEN Thrown
                  ELSE ImportValues(A, t.type,
                         ImportNulls(A.node[1].null_count, b0, A.node[1].length, owner),
                         owner, ub)

(***************************************************************************)
(* importFromArrowAsViewer and importFromArrowAsOwner.  Both give the      *)
(* heaps after the call, the result, and the shared_ptr pair the views of  *)
(* an owner import hold: the addresses of the two struct copies and the    *)
(* use count of each shared_ptr.                                           *)
(***************************************************************************)
NoReleasers == [schema |-> 0, array |-> 0, schemaUse |-> 0, arrayUse |-> 0]

\* The deleter of schemaReleaser.
SchemaDeleter(S, p) ==
  LET S1 == IF S.node[p].release # "null" THEN InvokeSchemaRelease(S, p) ELSE S
  IN [S1 EXCEPT !.freed = @ \cup {p}]

\* A deleter that frees the struct copy without invoking its release.
ArrayDeleterNoRelease(A, p) == [A EXCEPT !.freed = @ \cup {p}]

\* The deleter of arrayReleaser.
ArrayDeleter(A, p) ==
  LET A1 == IF A.node[p].release # "null" THEN InvokeArrayRelease(A, p) ELSE A
  IN [A1 EXCEPT !.freed = @ \cup {p}]

\* A release of a shared_ptr that runs the deleter whatever the use count.
LastOwnerAlways(useCount) == TRUE

\* The release of a shared_ptr decrements the use count atomically; the one
\* that finds it at 1 was the last owner and runs the deleter.
LastOwner(useCount) == useCount = 1

\* The views a vector holds: one per non-null BufferPtr.
NumViews(vector) ==
  (IF vector.nulls # NoBuffer THEN 1 ELSE 0) + (IF vector.values # NoBuffer THEN 1 ELSE 0)

\* "arrowSchema.release = nullptr; arrowArray.release = nullptr;"
OwnerMarkSchema(S) == [S EXCEPT !.node[1].release = "null"]
OwnerMarkArray(A) == [A EXCEPT !.node[1].release = "null"]

importFromArrowAsOwner(S, A, ub) ==
  LET cs == NextSchema(S)
      ca == NextArray(A)
      S1 == AllocSchema(S, S.node[1])
      A1 == AllocArray(A, A.node[1])
      r == importFromArrowImpl(S1, A1, TRUE, ub)
  IN CASE r.status = "ok" ->
            [S |-> OwnerMarkSchema(S1), A |-> OwnerMarkArray(A1), status |-> "ok",
             vector |-> r.vector,
             releasers |-> [schema |-> cs, array |-> ca,
                            schemaUse |-> NumViews(r.vector),
                            arrayUse |-> NumViews(r.vector)]]
       [] r.status = "error" ->
            \* The exception unwinds the two shared_ptrs: their deleters run.
            [S |-> SchemaDeleter(S1, cs), A |-> ArrayDeleter(A1, ca),
             status |-> "error", vector |-> r.vector, releasers |-> NoReleasers]
       [] OTHER ->
            [S |-> S1, A |-> A1, status |-> "crash", vector |-> r.vector,
             releasers |-> NoReleasers]

\* A viewer import that takes the structs over as the owner import does.
importFromArrowAsViewerTakingOver(S, A, ub) == importFromArrowAsOwner(S, A, ub)

importFromArrowAsViewer(S, A, ub) ==
  LET r == importFromArrowImpl(S, A, FALSE, ub)
  IN [S |-> S, A |-> A, status |-> r.status, vector |-> r.vector,
      releasers |-> NoReleasers]

(***************************************************************************)
(* ArrowSchema trees made by a foreign producer, the input of              *)
(* importFromArrow.  A shape gives a struct's format and name and its      *)
(* declared children (n_children is their number); NullKid is a declared   *)
(* child whose pointer is nullptr.                                         *)
(***************************************************************************)
\* Largest n_children of an enumerated foreign struct.
MaxForeignChildren == 2

SupportedFormats ==
  {<<"b">>, <<"c">>, <<"s">>, <<"i">>, <<"l">>, <<"f">>, <<"g">>, <<"u">>,
   <<"U">>, <<"z">>, <<"Z">>, <<"t", "t", "n">>, <<"t", "d", "D">>,
   <<"+", "L">>, <<"+", "m">>, <<"+", "s">>}

ForeignFormats ==
  SupportedFormats \cup
    {NullStr, <<>>, <<"n">>, <<"x">>, <<"i", "x">>, <<"b", "b">>, <<"t">>,
     <<"t", "t">>, <<"t", "t", "s">>, <<"t", "d", "m">>, <<"t", "t", "n", "x">>,
     <<"+">>, <<"+", "l">>, <<"+", "L", "x">>, <<"+", "s", "s">>}

Shape(f, nm, ks) == [format |-> f, name |-> nm, kids |-> ks]
NullKid == Shape(<<"nullkid">>, NullStr, <<>>)

KidShapes ==
  {NullKid,
   Shape(<<"i">>, NullStr, <<>>),
   Shape(<<"u">>, <<"a">>, <<>>),
   Shape(<<"x">>, <<"a">>, <<>>),
   Shape(<<"+", "L">>, <<"b">>, <<Shape(<<"l">>, NullStr, <<>>)>>),
   Shape(<<"+", "L">>, <<"b">>, <<NullKid>>),
   Shape(<<"+", "m">>, NullStr, <<Shape(<<"l">>, NullStr, <<>>)>>)}

\* The formats of the enumerated structs that declare children.
ParentFormats ==
  {<<"+", "L">>, <<"+", "m">>, <<"+", "s">>, <<"i">>, <<"+", "x">>}

ForeignShapes ==
  {Shape(f, NullStr, <<>>) : f \in ForeignFormats}
    \cup UNION {{Shape(f, NullStr, ks) : f \in ParentFormats, ks \in [1..k -> KidShapes]}
                : k \in 1..MaxForeignChildren}

RECURSIVE BuildForeignSchema(_, _, _)

RECURSIVE BuildForeignKids(_, _, _, _)
BuildForeignKids(S, n, shape, i) ==
  IF i > Len(shape.kids) THEN S
  ELSE IF shape.kids[i] = NullKid THEN BuildForeignKids(S, n, shape, i + 1)
  ELSE LET c == NextSchema(S)
           S1 == BuildForeignSchema(AllocSchema(S, ZeroSchema), c, shape.kids[i])
       IN BuildForeignKids(
            [S1 EXCEPT !.holder[n].childrenRaw[i] = c,
                       !.holder[n].childrenOwned[i] = c], n, shape, i + 1)

\* The struct at n and everything below it, as the producer fills them in.
BuildForeignSchema(S, n, shape) ==
  LET k == Len(shape.kids)
      S1 == [S EXCEPT !.node[n] = [format |-> shape.format, name |-> shape.name,
                                   flags |-> 0, n_children |-> k,
                                   children |-> IF k = 0 THEN 0 ELSE n,
                                   dictionary |-> 0, release |-> "foreignRelease",
                                   private_data |-> n],
                      !.holder[n] = NewSchemaHolder(k, FALSE)]
  IN BuildForeignKids(S1, n, shape, 1)

(***************************************************************************)
(* ArrowArray structs a foreign producer hands to the importer: an         *)
(* exported array with one field changed.                                  *)
(***************************************************************************)
ForeignEdits ==
  {"offset", "length", "length_eight", "length_nine", "null_count_zero",
   "null_count_unknown",
   "null_count_one", "no_nulls_buffer", "nulls_buffer", "one_buffer",
   "three_buffers", "no_buffers", "dictionary", "child", "children"}

ApplyForeignEdit(A, e, v) ==
  CASE e = "offset" -> [A EXCEPT !.node[1].offset = 1]
    [] e = "length" -> [A EXCEPT !.node[1].length = -1]
    [] e = "length_eight" -> [A EXCEPT !.node[1].length = 8]
    [] e = "length_nine" -> [A EXCEPT !.node[1].length = 9]
    [] e = "null_count_zero" -> [A EXCEPT !.node[1].null_count = 0]
    [] e = "null_count_unknown" -> [A EXCEPT !.node[1].null_count = -1]
    [] e = "null_count_one" -> [A EXCEPT !.node[1].null_count = 1]
    [] e = "no_nulls_buffer" -> [A EXCEPT !.holder[1].buffers[1] = "nullptr"]
    [] e = "nulls_buffer" -> [A EXCEPT !.holder[1].buffers[1] = "nulls"]
    [] e = "one_buffer" -> [A EXCEPT !.node[1].n_buffers = 1]
    [] e = "three_buffers" -> [A EXCEPT !.node[1].n_buffers = 3]
    [] e = "no_buffers" -> [A EXCEPT !.node[1].n_buffers = 0, !.node[1].buffers = 0]
    [] e = "dictionary" ->
         LET d == NextArray(A)
         IN [exportToArrowVector(AllocArray(A, ZeroArray), d, v).A EXCEPT
               !.node[1].dictionary = d]
    [] e = "child" ->
         LET c == NextArray(A)
             A1 == exportToArrowVector(AllocArray(A, ZeroArray), c, v).A
         IN [A1 EXCEPT !.ptrs = Append(@, <<c>>),
                       !.node[1].children = Len(A1.ptrs) + 1,
                       !.node[1].n_children = 1]
    [] OTHER ->
         [A EXCEPT !.ptrs = Append(@, <<>>), !.node[1].children = Len(A.ptrs) + 1]

(***************************************************************************)
(* Exported structs after a consumer changed their children or dictionary: *)
(* the inputs on which the loops of the two release procedures run.  A     *)
(* "broken" struct has a foreign release callback that returns without     *)
(* clearing release.                                                       *)
(***************************************************************************)
ConsumerEdits ==
  {"dictionary", "released_child", "null_child", "broken_child",
   "broken_dictionary"}

\* A struct exported by the bridge from `type`, at a new address.
NewExportedSchema(S, type) ==
  exportToArrowType(AllocSchema(S, ZeroSchema), NextSchema(S), type).S

\* The edits of an exported schema with two children.
ApplySchemaEdit(S, e) ==
  LET d == NextSchema(S)
      S1 == NewExportedSchema(S, Scalar("INTEGER"))
  IN CASE e = "dictionary" -> [S1 EXCEPT !.node[1].dictionary = d]
       [] e = "released_child" -> bridgeSchemaRelease(S, ChildPtr(S, 1, 2))
       [] e = "null_child" -> [S EXCEPT !.holder[S.node[1].children].childrenRaw[2] = 0]
       [] e = "broken_child" ->
            [S1 EXCEPT !.node[ChildPtr(S, 1, 1)].release = "brokenRelease",
                       !.node[1].dictionary = d]
       [] OTHER ->
            [S1 EXCEPT !.node[d].release = "brokenRelease", !.node[1].dictionary = d]

\* An ArrowArray exported by the bridge from v, at a new address.
NewExportedArray(A, v) ==
  exportToArrowVector(AllocArray(A, ZeroArray), NextArray(A), v).A

\* The edits of an exported array: two children, and a dictionary.
ApplyArrayEdit(A, e, v) ==
  LET c1 == NextArray(A)
      c2 == c1 + 1
      d == c1 + 2
      A1 == NewExportedArray(NewExportedArray(NewExportedArray(A, v), v), v)
      A2 == [A1 EXCEPT !.ptrs = Append(@, <<c1, c2>>),
                       !.node[1].children = Len(A1.ptrs) + 1,
                       !.node[1].n_children = 2]
  IN CASE e = "dictionary" -> [A2 EXCEPT !.node[1].dictionary = d]
       [] e = "released_child" -> bridgeRelease(A2, c2)
       [] e = "null_child" -> [A2 EXCEPT !.ptrs[A2.node[1].children][2] = 0]
       [] e = "broken_child" ->
            [A2 EXCEPT !.node[c1].release = "brokenRelease", !.node[1].dictionary = d]
       [] OTHER ->
            [A2 EXCEPT !.node[d].release = "brokenRelease", !.node[1].dictionary = d]

(***************************************************************************)
(* State.                                                                  *)
(***************************************************************************)
VARIABLES
  schemaHeap,      \* the ArrowSchema structs and their holders
  schemaType,      \* the type given to exportToArrow, or NoType
  schemaOp,        \* how the caller's ArrowSchema was filled, and whether that call returned
  importedType,    \* the result of importFromArrow on the caller's ArrowSchema
  arrayHeap,       \* the ArrowArray structs and their holders
  vector,          \* the vector given to exportToArrow, or NoVector
  arrayOp,         \* how the caller's ArrowArray was filled
  imported,        \* the result of importFromArrowAsViewer / AsOwner and its arguments
  viewRefs,        \* the references held to the imported vector's two buffer views
  releasers,       \* the shared_ptr pair of an owner import
  callerReleases,  \* how often the caller has invoked release on its two structs
  threads          \* where each thread that drops a reference to a view stands

vars ==
  <<schemaHeap, schemaType, schemaOp, importedType, arrayHeap, vector, arrayOp,
    imported, viewRefs, releasers, callerReleases, threads>>

\* The threads that hold and drop references to the imported vector's views.
Threads == 1..MaxThreads

NoOp == [op |-> "none", ok |-> FALSE]

NoImport ==
  [status |-> "none", mode |-> "none", vector |-> NoFlatVector,
   schemaArg |-> ZeroSchema, arrayArg |-> ZeroArray, buffersArg |-> <<>>]

Init ==
  /\ schemaHeap = EmptySchemaHeap
  /\ schemaType = NoType
  /\ schemaOp = NoOp
  /\ importedType = [done |-> FALSE, ok |-> FALSE, type |-> NoType]
  /\ arrayHeap = EmptyArrayHeap
  /\ vector = NoVector
  /\ arrayOp = NoOp
  /\ imported = NoImport
  /\ viewRefs = [nulls |-> 0, values |-> 0]
  /\ releasers = NoReleasers
  /\ callerReleases = [schema |-> 0, array |-> 0]
  /\ threads = [t \in Threads |-> "idle"]

schemaVars == <<schemaHeap, schemaType, schemaOp, importedType>>
arrayVars == <<arrayHeap, vector, arrayOp>>
importVars == <<imported, viewRefs, releasers, threads>>

\* The process runs on: no read crashed it and no VELOX_CHECK_NULL of a
\* release procedure failed.
Running ==
  /\ imported.status # "crash"
  /\ ~schemaHeap.fatal /\ ~arrayHeap.fatal

\* The caller invokes a release callback again only on structs it has not
\* handed to an import.
CanRelease(count) ==
  /\ Running
  /\ count < MaxReleases
  /\ count > 0 => imported.status = "none"

(***************************************************************************)
(* Actions.                                                                *)
(***************************************************************************)
\* exportToArrow(type, arrowSchema) into the caller's zeroed ArrowSchema.
ExportSchema(type) ==
  /\ schemaOp.op = "none"
  /\ LET r == exportToArrowType(schemaHeap, 1, type)
     IN /\ schemaHeap' = r.S
        /\ schemaOp' = [op |-> "export", ok |-> r.ok]
  /\ schemaType' = type
  /\ UNCHANGED <<importedType, arrayVars, importVars, callerReleases>>

\* A foreign producer fills the caller's ArrowSchema.
ForeignSchema(shape) ==
  /\ schemaOp.op = "none"
  /\ schemaHeap' = BuildForeignSchema(schemaHeap, 1, shape)
  /\ schemaOp' = [op |-> "foreign", ok |-> TRUE]
  /\ UNCHANGED <<schemaType, importedType, arrayVars, importVars, callerReleases>>

\* A consumer changes the children or the dictionary of an exported map.
ConsumerSchema(e) ==
  /\ schemaOp = [op |-> "export", ok |-> TRUE]
  /\ schemaType.kind = "MAP"
  /\ ~importedType.done
  /\ callerReleases.schema = 0
  /\ arrayOp.op = "none"
  /\ schemaHeap' = ApplySchemaEdit(schemaHeap, e)
  /\ schemaOp' = [op |-> "consumer", ok |-> TRUE]
  /\ UNCHANGED <<schemaType, importedType, arrayVars, importVars, callerReleases>>

\* importFromArrow(arrowSchema) on the caller's ArrowSchema.
ImportSchema ==
  /\ schemaOp.op \in {"export", "foreign"} /\ schemaOp.ok
  /\ ~importedType.done
  /\ callerReleases.schema = 0
  /\ arrayOp.op = "none"
  /\ LET r == importFromArrow(schemaHeap, 1)
     IN importedType' = [done |-> TRUE, ok |-> r.ok, type |-> r.type]
  /\ UNCHANGED <<schemaHeap, schemaType, schemaOp, arrayVars, importVars,
                 callerReleases>>

\* The caller invokes the bridge's release callback on its ArrowSchema.
ReleaseSchema ==
  /\ schemaOp.op \in {"export", "consumer"}
  /\ CanRelease(callerReleases.schema)
  /\ schemaHeap' = bridgeSchemaRelease(schemaHeap, 1)
  /\ callerReleases' = [callerReleases EXCEPT !.schema = @ + 1]
  /\ UNCHANGED <<schemaType, schemaOp, importedType, arrayVars, importVars>>

\* The schema types an array is exported and imported with.
ArrayFlowTypes(v) ==
  {Scalar(v.typeKind)} \cup
    (IF v.typeKind = "INTEGER" /\ v.encoding = "FLAT"
     THEN {Scalar("TIMESTAMP"), ARRAY(Scalar("BIGINT"))} ELSE {})

\* exportToArrow(vector, arrowArray) into the caller's zeroed ArrowArray.
ExportVector(v) ==
  /\ arrayOp.op = "none"
  /\ schemaOp.op = "export" /\ schemaOp.ok
  /\ schemaType \in ArrayFlowTypes(v)
  /\ LET r == exportToArrowVector(arrayHeap, 1, v)
     IN /\ arrayHeap' = r.A
        /\ arrayOp' = [op |-> "export", ok |-> r.ok]
  /\ vector' = v
  /\ UNCHANGED <<schemaVars, importVars, callerReleases>>

\* A foreign producer's ArrowArray.
ForeignArray(e) ==
  /\ arrayOp = [op |-> "export", ok |-> TRUE]
  /\ vector.typeKind = "INTEGER"
  /\ imported.status = "none"
  /\ callerReleases.array = 0
  /\ arrayHeap' = ApplyForeignEdit(arrayHeap, e, vector)
  /\ arrayOp' = [op |-> "foreign", ok |-> TRUE]
  /\ UNCHANGED <<schemaVars, vector, importVars, callerReleases>>

\* A consumer gives an exported array children and a dictionary.
ConsumerArray(e) ==
  /\ arrayOp = [op |-> "export", ok |-> TRUE]
  /\ vector.typeKind = "INTEGER"
  /\ imported.status = "none"
  /\ callerReleases.array = 0
  /\ arrayHeap' = ApplyArrayEdit(arrayHeap, e, vector)
  /\ arrayOp' = [op |-> "consumer", ok |-> TRUE]
  /\ UNCHANGED <<schemaVars, vector, importVars, callerReleases>>

\* The caller's two structs and buffers array as an import call sees them.
ImportArgs(status, mode, vec) ==
  [status |-> status, mode |-> mode, vector |-> vec,
   schemaArg |-> schemaHeap.node[1], arrayArg |-> arrayHeap.node[1],
   buffersArg |->
     IF arrayHeap.node[1].buffers # 0
          /\ arrayHeap.holder[arrayHeap.node[1].buffers].state = "alive"
     THEN arrayHeap.holder[arrayHeap.node[1].buffers].buffers ELSE <<>>]

CanImport ==
  /\ arrayOp.op \in {"export", "foreign"} /\ arrayOp.ok
  /\ imported.status = "none"
  /\ callerReleases.schema <= 1 /\ callerReleases.array <= 1

\* The outcomes of the reads of an import call through the buffers pointer.
ReadOutcomes ==
  IF arrayHeap.node[1].buffers = 0
       \/ arrayHeap.holder[arrayHeap.node[1].buffers].state # "alive"
  THEN UBOutcomes ELSE {"defined"}

ImportAsViewer(ub) ==
  /\ CanImport
  /\ LET r == importFromArrowAsViewer(schemaHeap, arrayHeap, ub)
     IN /\ schemaHeap' = r.S
        /\ arrayHeap' = r.A
        /\ imported' = ImportArgs(r.status, "viewer", r.vector)
        /\ releasers' = r.releasers
        /\ viewRefs' = [nulls |-> IF r.vector.nulls # NoBuffer THEN 1 ELSE 0,
                        values |-> IF r.vector.values # NoBuffer THEN 1 ELSE 0]
  /\ UNCHANGED <<schemaType, schemaOp, importedType, vector, arrayOp, callerReleases,
                 threads>>

ImportAsOwner(ub) ==
  /\ CanImport
  /\ LET r == importFromArrowAsOwner(schemaHeap, arrayHeap, ub)
     IN /\ schemaHeap' = r.S
        /\ arrayHeap' = r.A
        /\ imported' = ImportArgs(r.status, "owner", r.vector)
        /\ releasers' = r.releasers
        /\ viewRefs' = [nulls |-> IF r.vector.nulls # NoBuffer THEN 1 ELSE 0,
                        values |-> IF r.vector.values # NoBuffer THEN 1 ELSE 0]
  /\ UNCHANGED <<schemaType, schemaOp, importedType, vector, arrayOp, callerReleases,
                 threads>>

\* One more reference to a buffer view of the imported vector.
CopyView(w) ==
  /\ imported.status = "ok"
  /\ viewRefs[w] > 0 /\ viewRefs[w] < MaxRefs
  /\ viewRefs' = [viewRefs EXCEPT ![w] = @ + 1]
  /\ UNCHANGED <<schemaVars, arrayVars, imported, releasers, callerReleases, threads>>

\* A reference to a buffer view is dropped.  The last reference destroys the
\* view and its BufferViewReleaser; the last releaser of an owner import runs
\* the two deleters.
DropView(w) ==
  /\ imported.status = "ok"
  /\ viewRefs[w] > 0
  /\ viewRefs' = [viewRefs EXCEPT ![w] = @ - 1]
  /\ IF viewRefs[w] = 1 /\ imported.mode = "owner"
     THEN /\ releasers' = [releasers EXCEPT !.arrayUse = @ - 1, !.schemaUse = @ - 1]
          /\ arrayHeap' = IF LastOwner(releasers.arrayUse)
                          THEN ArrayDeleter(arrayHeap, releasers.array)
                          ELSE arrayHeap
          /\ schemaHeap' = IF LastOwner(releasers.schemaUse)
                           THEN SchemaDeleter(schemaHeap, releasers.schema)
                           ELSE schemaHeap
     ELSE UNCHANGED <<schemaHeap, arrayHeap, releasers>>
  /\ UNCHANGED <<schemaType, schemaOp, importedType, vector, arrayOp, imported,
                 callerReleases, threads>>

\* The caller invokes the bridge's release callback on its ArrowArray.
ReleaseArray ==
  /\ arrayOp.op # "none"
  /\ CanRelease(callerReleases.array)
  /\ arrayHeap' = bridgeRelease(arrayHeap, 1)
  /\ callerReleases' = [callerReleases EXCEPT !.array = @ + 1]
  /\ UNCHANGED <<schemaVars, vector, arrayOp, importVars>>

Next ==
  \/ \E type \in AllTypes : ExportSchema(type)
  \/ \E shape \in ForeignShapes : ForeignSchema(shape)
  \/ \E e \in ConsumerEdits : ConsumerSchema(e)
  \/ ImportSchema
  \/ ReleaseSchema
  \/ \E v \in Vectors : ExportVector(v)
  \/ \E e \in ForeignEdits : ForeignArray(e)
  \/ \E e \in ConsumerEdits : ConsumerArray(e)
  \/ \E ub \in ReadOutcomes : ImportAsViewer(ub)
  \/ \E ub \in ReadOutcomes : ImportAsOwner(ub)
  \/ \E w \in {"nulls", "values"} : CopyView(w)
  \/ \E w \in {"nulls", "values"} : DropView(w)
  \/ ReleaseArray

Spec == Init /\ [][Next]_vars

(***************************************************************************)
(* The references to the views of an owner import dropped by threads.  A   *)
(* drop is a sequence of steps of one thread: it decrements the view's     *)
(* reference count; the thread that brought it to zero destroys the view   *)
(* and with it the BufferViewReleaser, whose members go in reverse order   *)
(* of declaration: arrayReleaser_, then schemaReleaser_.  Each release of  *)
(* a shared_ptr decrements its use count, and the thread that was the last *)
(* owner runs the deleter.                                                 *)
(***************************************************************************)
\* Thread t drops a reference to the view w.
BeginDrop(t, w) ==
  /\ imported.status = "ok" /\ imported.mode = "owner"
  /\ threads[t] = "idle"
  /\ viewRefs[w] > 0
  /\ viewRefs' = [viewRefs EXCEPT ![w] = @ - 1]
  /\ threads' = [threads EXCEPT ![t] = IF viewRefs[w] = 1 THEN "arrayReleaser" ELSE "idle"]
  /\ UNCHANGED <<schemaVars, arrayVars, imported, releasers, callerReleases>>

\* ~arrayReleaser_.
ReleaseArrayReleaser(t) ==
  /\ threads[t] = "arrayReleaser"
  /\ releasers' = [releasers EXCEPT !.arrayUse = @ - 1]
  /\ threads' = [threads EXCEPT ![t] = IF LastOwner(releasers.arrayUse)
                                       THEN "arrayDeleter" ELSE "schemaReleaser"]
  /\ UNCHANGED <<schemaVars, arrayVars, imported, viewRefs, callerReleases>>

\* The deleter of arrayReleaser.
RunArrayDeleter(t) ==
  /\ threads[t] = "arrayDeleter"
  /\ arrayHeap' = ArrayDeleter(arrayHeap, releasers.array)
  /\ threads' = [threads EXCEPT ![t] = "schemaReleaser"]
  /\ UNCHANGED <<schemaVars, vector, arrayOp, imported, viewRefs, releasers,
                 callerReleases>>

\* ~schemaReleaser_.
ReleaseSchemaReleaser(t) ==
  /\ threads[t] = "schemaReleaser"
  /\ releasers' = [releasers EXCEPT !.schemaUse = @ - 1]
  /\ threads' = [threads EXCEPT ![t] = IF LastOwner(releasers.schemaUse)
                                       THEN "schemaDeleter" ELSE "idle"]
  /\ UNCHANGED <<schemaVars, arrayVars, imported, viewRefs, callerReleases>>

\* The deleter of schemaReleaser.
RunSchemaDeleter(t) ==
  /\ threads[t] = "schemaDeleter"
  /\ schemaHeap' = SchemaDeleter(schemaHeap, releasers.schema)
  /\ threads' = [threads EXCEPT ![t] = "idle"]
  /\ UNCHANGED <<schemaType, schemaOp, importedType, arrayVars, imported, viewRefs,
                 releasers, callerReleases>>

ConcurrentNext ==
  \/ \E type \in AllTypes : ExportSchema(type)
  \/ \E v \in Vectors : ExportVector(v)
  \/ \E e \in ForeignEdits : ForeignArray(e)
  \/ \E ub \in ReadOutcomes : ImportAsOwner(ub)
  \/ \E w \in {"nulls", "values"} : CopyView(w)
  \/ \E t \in Threads : \E w \in {"nulls", "values"} : BeginDrop(t, w)
  \/ \E t \in Threads : ReleaseArrayReleaser(t)
  \/ \E t \in Threads : RunArrayDeleter(t)
  \/ \E t \in Threads : ReleaseSchemaReleaser(t)
  \/ \E t \in Threads : RunSchemaDeleter(t)

ConcurrentSpec == Init /\ [][ConcurrentNext]_vars

(***************************************************************************)
(* Properties.                                                             *)
(***************************************************************************)
SchemaNodes == 1..Len(schemaHeap.node)

ExportedSchema == schemaOp = [op |-> "export", ok |-> TRUE]
ExportedArray == arrayOp = [op |-> "export", ok |-> TRUE]

\* C1: once the caller has invoked the release callback of an exported
\* schema tree or array, however many further times it invokes it, every
\* holder has been destroyed exactly once, every child's release callback
\* has been invoked exactly once, no freed memory was touched, and the
\* struct has release == null and private_data == null.
ReleaseTwiceIsNoOp ==
  /\ (ExportedSchema /\ imported.status = "none" /\ callerReleases.schema >= 1) =>
       /\ \A n \in SchemaNodes :
            /\ schemaHeap.holder[n].destroyed = 1
            /\ n # 1 => schemaHeap.calls[n] = 1
       /\ schemaHeap.node[1].release = "null"
       /\ schemaHeap.node[1].private_data = 0
       /\ ~schemaHeap.ub /\ ~schemaHeap.fatal
  /\ (ExportedArray /\ imported.status = "none" /\ callerReleases.array >= 1) =>
       /\ arrayHeap.holder[1].destroyed = 1
       /\ arrayHeap.vectorRefs = 0
       /\ arrayHeap.node[1].release = "null"
       /\ arrayHeap.node[1].private_data = 0
       /\ ~arrayHeap.ub /\ ~arrayHeap.fatal

\* A composite schema tree and an array, each released twice by the caller.
ReleasedTwice ==
  /\ ExportedSchema /\ ExportedArray /\ imported.status = "none"
  /\ Len(schemaHeap.node) > 1
  /\ callerReleases.schema = 2
  /\ callerReleases.array = 2

\* C2: importFromArrow of an exported schema gives back the exported type:
\* the same kind at every node, the same children in the same order and the
\* same field names.
SchemaRoundTrip ==
  (importedType.done /\ schemaOp.op = "export") =>
    /\ importedType.ok
    /\ importedType.type = schemaType

\* A row of two named fields, one of them a composite, exported and imported.
RowRoundTripped ==
  /\ importedType.done /\ schemaOp.op = "export"
  /\ schemaType.kind = "ROW"
  /\ NumChildren(schemaType) = 2
  /\ schemaType.names = <<<<"a", "b">>, <<>>>>
  /\ schemaType.children[2].kind = "ARRAY"

\* The vector was exported into the caller's ArrowArray, its type into the
\* caller's ArrowSchema, and the two structs were imported as exported.
ViewerImportOfExport ==
  /\ imported.mode = "viewer"
  /\ ExportedSchema /\ ExportedArray
  /\ schemaType = Scalar(vector.typeKind)
  /\ imported.schemaArg.release # "null"
  /\ imported.arrayArg.release # "null"

\* The imported vector is the exported one: kind, length and values buffer.
SameVector ==
  /\ imported.vector.type = Scalar(vector.typeKind)
  /\ imported.vector.length = vector.size
  /\ imported.vector.values.ptr = vector.values

\* A null bitmap exactly when the exported null_count is not zero.
NullsConsistent(v) == (v.nullCount = 0) <=> (v.rawNulls = "nullptr")

\* C3 as claimed: every exported flat vector, with or without a null bitmap
\* and with a cached or unknown null count, imports in viewer mode to a
\* vector of the same kind, length and values.
ViewerRoundTripAnyNulls ==
  ViewerImportOfExport => (imported.status = "ok" /\ SameVector)

\* C3: an exported flat vector imports in viewer mode to a vector of the
\* same kind, length and values exactly when it has a null bitmap and a null
\* count that is unknown or above zero, or no null bitmap and a cached null
\* count of zero; in the other cases the import throws.
ViewerRoundTrip ==
  ViewerImportOfExport =>
    /\ imported.status \in {"ok", "error"}
    /\ imported.status = "ok" <=> NullsConsistent(vector)
    /\ imported.status = "ok" => SameVector

\* A vector with a null bitmap and an unknown null count, round-tripped.
RoundTrippedWithNulls ==
  /\ ViewerImportOfExport
  /\ imported.status = "ok"
  /\ vector.size = 1
  /\ vector.rawNulls = "nulls"
  /\ vector.nullCount = -1

\* C4: after a successful owner import the caller's two structs have a null
\* release; while a reference to a buffer view is held neither release
\* callback has run; once the last is dropped each has run exactly once.
OwnerReleasesOnce ==
  (imported.mode = "owner" /\ imported.status = "ok") =>
    LET n == IF viewRefs.nulls + viewRefs.values > 0 THEN 0 ELSE 1
    IN /\ schemaHeap.node[1].release = "null"
       /\ arrayHeap.node[1].release = "null"
       /\ schemaHeap.calls[releasers.schema] = n
       /\ arrayHeap.calls[releasers.array] = n
       /\ schemaHeap.holder[1].destroyed = n
       /\ arrayHeap.holder[1].destroyed = n
       /\ ~schemaHeap.ub /\ ~arrayHeap.ub

\* An owner import of an array without nulls whose values view was dropped.
OwnerDroppedValuesOnly ==
  /\ imported.mode = "owner" /\ imported.status = "ok"
  /\ imported.arrayArg.null_count = 0
  /\ imported.vector.nulls = NoBuffer
  /\ viewRefs.nulls + viewRefs.values = 0

\* C5: a viewer import, and a later copy or drop of a reference to its
\* views, changes no struct or holder and invokes no release callback; the
\* only release of either struct is the caller's own.
ViewerTouchesNothing ==
  [][/\ (imported'.mode = "viewer" /\ (imported.status = "none" \/ viewRefs' # viewRefs))
          => (schemaHeap' = schemaHeap /\ arrayHeap' = arrayHeap)
     /\ imported'.mode = "viewer" =>
          /\ arrayHeap'.holder[1].destroyed = IF callerReleases'.array > 0 THEN 1 ELSE 0
          /\ schemaHeap'.holder[1].destroyed = IF callerReleases'.schema > 0 THEN 1 ELSE 0
    ]_vars

\* A viewer import whose views were all dropped before the caller released
\* the array.
ViewerDroppedThenReleased ==
  /\ imported.mode = "viewer" /\ imported.status = "ok"
  /\ viewRefs.nulls + viewRefs.values = 0
  /\ imported.arrayArg.release # "null"
  /\ callerReleases.array = 1
  /\ arrayHeap.holder[1].destroyed = 1

\* One of the preconditions of importFromArrowImpl does not hold for the
\* structs the import was called with.
PreconditionViolated ==
  \/ imported.schemaArg.release = "null"
  \/ imported.arrayArg.release = "null"
  \/ imported.arrayArg.dictionary # 0
  \/ imported.arrayArg.n_children # 0
  \/ imported.arrayArg.children # 0
  \/ imported.arrayArg.offset # 0
  \/ imported.arrayArg.length < 0
  \/ ~IsPrimitiveType(schemaType)
  \/ imported.arrayArg.n_buffers # 2

\* C6: an import called with a violated precondition ends with an error.
ImportRejectsViolation ==
  (imported.status # "none" /\ PreconditionViolated) => imported.status = "error"

\* C7: when every other precondition holds, the import succeeds exactly when
\* null_count and buffers[0] agree; the vector then has no nulls buffer for
\* null_count 0 and a view of buffers[0] otherwise.
NullCountAgreesWithBuffer ==
  (imported.status # "none" /\ ~PreconditionViolated /\ imported.buffersArg # <<>>) =>
    LET nc == imported.arrayArg.null_count
        b0 == imported.buffersArg[1]
    IN /\ imported.status \in {"ok", "error"}
       /\ imported.status = "ok" <=> ((nc = 0) <=> (b0 = "nullptr"))
       /\ imported.status = "ok" =>
            IF nc = 0 THEN imported.vector.nulls = NoBuffer
            ELSE imported.vector.nulls.ptr = b0

\* An array with null_count 0 and a nulls buffer, rejected.
RejectedNullsBuffer ==
  /\ imported.status = "error" /\ ~PreconditionViolated
  /\ imported.buffersArg # <<>>
  /\ imported.arrayArg.null_count = 0
  /\ imported.buffersArg[1] = "nulls"

\* C8: after a failed export every struct an export completed has had its
\* release callback invoked once and its holder destroyed once, every holder
\* made during the call is destroyed and every struct it allocated is freed.
FailedExportRollsBack ==
  (schemaOp = [op |-> "export", ok |-> FALSE] /\ callerReleases.schema = 0) =>
    /\ \A n \in schemaHeap.built :
         /\ schemaHeap.calls[n] = 1
         /\ schemaHeap.holder[n].destroyed = 1
         /\ schemaHeap.node[n].release = "null"
    /\ \A n \in SchemaNodes :
         /\ schemaHeap.holder[n].state # "alive"
         /\ schemaHeap.holder[n].destroyed <= 1
         /\ n # 1 => n \in schemaHeap.freed
    /\ ~schemaHeap.ub /\ ~schemaHeap.fatal

\* A failed export that had completed a child and a grandchild.
FailedAfterBuiltSubtree ==
  /\ schemaOp = [op |-> "export", ok |-> FALSE]
  /\ \E n \in schemaHeap.built : \E m \in schemaHeap.built :
       schemaHeap.holder[n].childrenRaw = <<m>>

\* What C9 says makes importFromArrow fail, at the struct n or, for a list,
\* map or struct, below it.
RECURSIVE SchemaMalformed(_, _)
SchemaMalformed(S, n) ==
  LET f == S.node[n].format
      k == S.node[n].n_children
  IN \/ f = NullStr \/ f = <<>> \/ f \notin SupportedFormats
     \/ f = <<"+", "L">> /\ k # 1
     \/ f = <<"+", "m">> /\ k # 2
     \/ /\ f \in {<<"+", "L">>, <<"+", "m">>, <<"+", "s">>}
        /\ \E i \in 1..k :
             \/ ChildPtr(S, n, i) = 0
             \/ SchemaMalformed(S, ChildPtr(S, n, i))

\* C9: importFromArrow fails exactly on the malformed schema trees.
ImportSchemaRejectsMalformed ==
  (importedType.done /\ schemaOp.op = "foreign") =>
    (importedType.ok <=> ~SchemaMalformed(schemaHeap, 1))

\* C10: a failed owner import of two unreleased structs has invoked neither
\* release callback, so each foreign resource is released once, by the
\* caller.
FailedOwnerImportReleasesNothing ==
  (/\ imported.mode = "owner" /\ imported.status = "error"
   /\ imported.schemaArg.release # "null"
   /\ imported.arrayArg.release # "null") =>
    /\ schemaHeap.holder[1].destroyed = IF callerReleases.schema > 0 THEN 1 ELSE 0
    /\ arrayHeap.holder[1].destroyed = IF callerReleases.array > 0 THEN 1 ELSE 0

\* C11: after a failed export of a vector into a zeroed ArrowArray the struct
\* has release == null exactly when private_data == null, and its buffers
\* pointer does not point into a holder that was destroyed.
FailedArrayExportNotLive ==
  (arrayOp = [op |-> "export", ok |-> FALSE] /\ callerReleases.array = 0) =>
    /\ (arrayHeap.node[1].release = "null") <=> (arrayHeap.node[1].private_data = 0)
    /\ \/ arrayHeap.node[1].buffers = 0
       \/ arrayHeap.holder[arrayHeap.node[1].buffers].state = "alive"

\* C12: release == null exactly when private_data == null at every struct
\* the caller can see: at every struct of an exported schema tree and at an
\* exported array, before and after the caller released them, and at the
\* caller's two structs after a successful owner import.
ReleasedIffNoPrivateData ==
  /\ (ExportedSchema /\ imported.mode # "owner") =>
       \A n \in SchemaNodes :
         (schemaHeap.node[n].release = "null") <=> (schemaHeap.node[n].private_data = 0)
  /\ (ExportedArray /\ imported.mode # "owner") =>
       (arrayHeap.node[1].release = "null") <=> (arrayHeap.node[1].private_data = 0)
  /\ (imported.mode = "owner" /\ imported.status = "ok") =>
       /\ schemaHeap.node[1].release = "null" /\ schemaHeap.node[1].private_data = 0
       /\ arrayHeap.node[1].release = "null" /\ arrayHeap.node[1].private_data = 0

\* The order in which a release of the struct n marks structs released:
\* nothing for a null or released struct; otherwise the children in index
\* order, each with what is below it, then the dictionary, then n.
RECURSIVE SchemaReleaseOrder(_, _)

RECURSIVE SchemaChildrenOrder(_, _, _)
SchemaChildrenOrder(S, n, i) ==
  IF i > S.node[n].n_children THEN <<>>
  ELSE SchemaReleaseOrder(S, ChildPtr(S, n, i)) \o SchemaChildrenOrder(S, n, i + 1)

SchemaReleaseOrder(S, n) ==
  IF n = 0 \/ S.node[n].release = "null" THEN <<>>
  ELSE SchemaChildrenOrder(S, n, 1)
         \o SchemaReleaseOrder(S, S.node[n].dictionary) \o <<n>>

RECURSIVE ArrayReleaseOrder(_, _)

RECURSIVE ArrayChildrenOrder(_, _, _)
ArrayChildrenOrder(A, n, i) ==
  IF i > A.node[n].n_children THEN <<>>
  ELSE ArrayReleaseOrder(A, ArrayChildPtr(A, n, i)) \o ArrayChildrenOrder(A, n, i + 1)

ArrayReleaseOrder(A, n) ==
  IF n = 0 \/ A.node[n].release = "null" THEN <<>>
  ELSE ArrayChildrenOrder(A, n, 1)
         \o ArrayReleaseOrder(A, A.node[n].dictionary) \o <<n>>

\* Every struct of the log was marked released after its non-null children.
ChildrenMarkedFirst(log, kids) ==
  \A p \in 1..Len(log) :
    \A c \in kids[log[p]] \ {0} : \E q \in 1..(p - 1) : log[q] = c

SchemaKids ==
  [n \in SchemaNodes |->
     {ChildPtr(schemaHeap, n, i) : i \in 1..schemaHeap.node[n].n_children}
       \cup {schemaHeap.node[n].dictionary}]

ArrayNodes == 1..Len(arrayHeap.node)

ArrayKids ==
  [n \in ArrayNodes |->
     {ArrayChildPtr(arrayHeap, n, i) : i \in 1..arrayHeap.node[n].n_children}
       \cup {arrayHeap.node[n].dictionary}]

\* C13: a release by the caller that meets no broken callback marks the
\* unreleased structs below and at the caller's struct released in
\* depth-first order (children in index order, then the dictionary, then the
\* struct itself), destroys the holder of each once and leaves its release
\* and private_data null; and no struct is ever marked released before one
\* of its non-null children.
ReleaseIsDepthFirst ==
  [][/\ (callerReleases'.schema # callerReleases.schema /\ ~schemaHeap'.fatal) =>
          LET order == SchemaReleaseOrder(schemaHeap, 1)
          IN /\ schemaHeap'.log = schemaHeap.log \o order
             /\ \A p \in 1..Len(order) :
                  /\ schemaHeap'.node[order[p]].release = "null"
                  /\ schemaHeap'.node[order[p]].private_data = 0
                  /\ schemaHeap'.holder[schemaHeap.node[order[p]].private_data].destroyed
                       = schemaHeap.holder[schemaHeap.node[order[p]].private_data].destroyed + 1
     /\ (callerReleases'.array # callerReleases.array /\ ~arrayHeap'.fatal) =>
          LET order == ArrayReleaseOrder(arrayHeap, 1)
          IN /\ arrayHeap'.log = arrayHeap.log \o order
             /\ \A p \in 1..Len(order) :
                  /\ arrayHeap'.node[order[p]].release = "null"
                  /\ arrayHeap'.node[order[p]].private_data = 0
                  /\ arrayHeap.node[order[p]].private_data # 0 =>
                       arrayHeap'.holder[arrayHeap.node[order[p]].private_data].destroyed
                         = arrayHeap.holder[arrayHeap.node[order[p]].private_data].destroyed + 1
     /\ ChildrenMarkedFirst(schemaHeap.log, SchemaKids)'
     /\ ChildrenMarkedFirst(arrayHeap.log, ArrayKids)'
    ]_vars

\* A released list schema, and a released array that had two children and a
\* dictionary.
ReleasedChildrenThenDictionary ==
  /\ schemaHeap.log = <<2, 1>>
  /\ arrayOp.op = "consumer"
  /\ arrayHeap.log = <<2, 3, 4, 1>>

\* The children of the caller's struct and its dictionary, in the order in
\* which a release procedure visits them.
SchemaVisitOrder ==
  [i \in 1..schemaHeap.node[1].n_children |-> ChildPtr(schemaHeap, 1, i)]
    \o <<schemaHeap.node[1].dictionary>>

ArrayVisitOrder ==
  [i \in 1..arrayHeap.node[1].n_children |-> ArrayChildPtr(arrayHeap, 1, i)]
    \o <<arrayHeap.node[1].dictionary>>

\* The release of struct 1 stopped at the first broken struct of `order`:
\* the structs before it are released, its callback ran once, the callbacks
\* of the structs after it did not run, and struct 1 is not marked released
\* and keeps its holder.  Without a broken struct nothing is fatal.
StoppedAtBroken(H, order) ==
  LET broken == {p \in 1..Len(order) :
                   order[p] # 0 /\ H.node[order[p]].release = "brokenRelease"}
  IN IF broken = {} THEN ~H.fatal
     ELSE LET b == CHOOSE p \in broken : \A q \in broken : p <= q
          IN /\ H.fatal
             /\ H.calls[order[b]] = 1
             /\ \A q \in 1..(b - 1) : order[q] # 0 => H.node[order[q]].release = "null"
             /\ \A q \in (b + 1)..Len(order) :
                  order[q] # 0 =>
                    /\ H.calls[order[q]] = 0
                    /\ H.node[order[q]].release # "null"
             /\ H.node[1].release # "null"
             /\ H.node[1].private_data = 1
             /\ H.holder[1].state = "alive" /\ H.holder[1].destroyed = 0
             /\ \A p \in 1..Len(H.log) : H.log[p] # 1

\* C14: when the caller releases a struct one of whose children, or whose
\* dictionary, has a callback that returns with release still set, the
\* release procedure fails at that struct: the later children and the
\* dictionary are not released, the holder is not destroyed and the struct
\* is not marked released.
BrokenCallbackIsFatal ==
  /\ (schemaOp.op = "consumer" /\ callerReleases.schema > 0) =>
       StoppedAtBroken(schemaHeap, SchemaVisitOrder)
  /\ (arrayOp.op = "consumer" /\ callerReleases.array > 0) =>
       StoppedAtBroken(arrayHeap, ArrayVisitOrder)

\* An array released with a broken first child, a second child and a
\* dictionary.
StoppedAtBrokenChild ==
  /\ arrayOp.op = "consumer" /\ callerReleases.array > 0
  /\ arrayHeap.node[ArrayVisitOrder[1]].release = "brokenRelease"
  /\ ArrayVisitOrder[2] # 0 /\ ArrayVisitOrder[3] # 0
  /\ arrayHeap.fatal

\* C15: when threads drop the references to the views of an owner import in
\* any interleaving, neither release callback runs while a reference to a
\* view is held, each runs at most once, only the thread whose release found
\* a use count of one runs a deleter, and once every reference is dropped
\* and every thread is done each callback has run exactly once.
ConcurrentDropsReleaseOnce ==
  (imported.mode = "owner" /\ imported.status = "ok") =>
    LET held == viewRefs.nulls + viewRefs.values
        arrayCalls == arrayHeap.calls[releasers.array]
        schemaCalls == schemaHeap.calls[releasers.schema]
    IN /\ arrayCalls <= 1 /\ schemaCalls <= 1
       /\ arrayHeap.holder[1].destroyed = arrayCalls
       /\ schemaHeap.holder[1].destroyed = schemaCalls
       /\ held > 0 => (arrayCalls = 0 /\ schemaCalls = 0)
       /\ \A t \in Threads :
            /\ threads[t] = "arrayDeleter" =>
                 /\ releasers.arrayUse = 0 /\ arrayCalls = 0
                 /\ \A u \in Threads \ {t} : threads[u] # "arrayDeleter"
            /\ threads[t] = "schemaDeleter" =>
                 /\ releasers.schemaUse = 0 /\ schemaCalls = 0
                 /\ \A u \in Threads \ {t} : threads[u] # "schemaDeleter"
       /\ (held = 0 /\ \A t \in Threads : threads[t] = "idle") =>
            (arrayCalls = 1 /\ schemaCalls = 1)
       /\ ~arrayHeap.ub /\ ~schemaHeap.ub

\* Two threads dropped the two views at once: the array's callback has run
\* and both threads are about to release their schemaReleaser_.
TwoThreadsDropping ==
  /\ imported.mode = "owner" /\ imported.status = "ok"
  /\ arrayHeap.calls[releasers.array] = 1
  /\ \A t \in Threads : threads[t] = "schemaReleaser"

\* The scalar format codes importFromArrow accepts.
ScalarFormats == SupportedFormats \ {<<"+", "L">>, <<"+", "m">>, <<"+", "s">>}

\* A scalar kind was exported and the format it gave was imported.
ScalarKindRoundTrip ==
  (importedType.done /\ schemaOp.op = "export" /\ schemaType.kind \in ScalarKinds) =>
    (importedType.ok /\ importedType.type = schemaType)

\* A foreign struct with an accepted scalar code was imported.
ImportedScalarFormat ==
  /\ importedType.done /\ schemaOp.op = "foreign"
  /\ schemaHeap.node[1].format \in ScalarFormats

\* C16 as claimed: the format of every scalar kind decodes to that kind, and
\* the kind every accepted scalar code decodes to has that code as its
\* format.
ScalarMappingIsBijection ==
  /\ ScalarKindRoundTrip
  /\ ImportedScalarFormat =>
       /\ importedType.ok
       /\ exportArrowFormatStr(importedType.type.kind) = schemaHeap.node[1].format

\* The code exportArrowFormatStr gives the kind a code decodes to: the code
\* itself, but "u" for "U" and "z" for "Z".
CanonicalFormat(f) ==
  CASE f = <<"U">> -> <<"u">>
    [] f = <<"Z">> -> <<"z">>
    [] OTHER -> f

\* C16: the format of every scalar kind decodes to that kind; the kind an
\* accepted scalar code decodes to has that code as its format, except that
\* "U" decodes to the kind of "u" and "Z" to the kind of "z".
ScalarMappingUpToLargeCodes ==
  /\ ScalarKindRoundTrip
  /\ ImportedScalarFormat =>
       /\ importedType.ok
       /\ exportArrowFormatStr(importedType.type.kind)
            = CanonicalFormat(schemaHeap.node[1].format)

\* The large utf-8 code, imported as VARCHAR.
ImportedLargeString ==
  /\ ImportedScalarFormat
  /\ schemaHeap.node[1].format = <<"U">>
  /\ importedType.type = Scalar("VARCHAR")

\* The struct n, and every struct below it, is the export of `type` under
\* the name `name`: format, flags, dictionary, the number of children and the
\* children themselves, each owned by n's holder and named after its field
\* when `type` is a row.
RECURSIVE SchemaMatches(_, _, _, _)
SchemaMatches(S, n, type, name) ==
  LET node == S.node[n]
      k == NumChildren(type)
  IN /\ node.format = exportArrowFormatStr(type.kind)
     /\ node.name = name
     /\ node.flags = ARROW_FLAG_NULLABLE
     /\ node.dictionary = 0
     /\ node.n_children = k
     /\ node.release = "bridgeSchemaRelease"
     /\ node.private_data # 0
     /\ S.holder[node.private_data].state = "alive"
     /\ IF k = 0 THEN node.children = 0
        ELSE /\ node.children # 0
             /\ Len(S.holder[node.private_data].childrenOwned) = k
             /\ \A i \in 1..k :
                  /\ ChildPtr(S, n, i) # 0
                  /\ ChildPtr(S, n, i) = S.holder[node.private_data].childrenOwned[i]
                  /\ \A j \in 1..k : j # i => ChildPtr(S, n, j) # ChildPtr(S, n, i)
                  /\ SchemaMatches(S, ChildPtr(S, n, i), type.children[i],
                       IF type.kind = "ROW" THEN type.names[i] ELSE NullStr)

\* C17: every struct of a successfully exported schema tree is nullable, has
\* no dictionary, has the format and the number of children of its type
\* node, children that are the structs its holder owns, in the order of the
\* type's children, and the name of its field when its parent is a row, a
\* null name otherwise (the root included).
ExportedTreeMatchesType ==
  (ExportedSchema /\ callerReleases.schema = 0 /\ imported.mode # "owner") =>
    SchemaMatches(schemaHeap, 1, schemaType, NullStr)

\* An exported row of two fields, the first with an empty name, the second
\* an array.
ExportedRowOfArray ==
  /\ ExportedSchema /\ callerReleases.schema = 0
  /\ schemaType.kind = "ROW" /\ NumChildren(schemaType) = 2
  /\ schemaType.names[1] = <<>>
  /\ schemaType.children[2].kind = "ARRAY"
  /\ schemaHeap.node[ChildPtr(schemaHeap, 1, 2)].n_children = 1

\* C18: exportToArrow of a vector fails exactly when the vector is not flat
\* or its kind is not boolean, int8, int16, int32, int64, float32 or float64;
\* when it succeeds the struct has the vector's length, offset 0, two
\* buffers, no children and no dictionary, the cached null count or -1, the
\* raw nulls pointer in buffers[0] and the raw values pointer in buffers[1].
ExportedArrayMatchesVector ==
  (arrayOp.op = "export" /\ callerReleases.array = 0 /\ imported.mode # "owner") =>
    LET node == arrayHeap.node[1]
    IN /\ arrayOp.ok <=>
            /\ vector.encoding = "FLAT"
            /\ vector.typeKind \in {"BOOLEAN", "TINYINT", "SMALLINT", "INTEGER",
                                    "BIGINT", "REAL", "DOUBLE"}
       /\ arrayOp.ok =>
            /\ node.length = vector.size
            /\ node.offset = 0
            /\ node.n_buffers = 2
            /\ node.n_children = 0 /\ node.children = 0
            /\ node.dictionary = 0
            /\ node.null_count = vector.nullCount
            /\ node.buffers # 0
            /\ arrayHeap.holder[node.buffers].state = "alive"
            /\ arrayHeap.holder[node.buffers].buffers = <<vector.rawNulls, vector.values>>

\* An exported float64 vector of one element, which is null.
ExportedVectorWithNull ==
  /\ ExportedArray /\ callerReleases.array = 0 /\ imported.status = "none"
  /\ vector.typeKind = "DOUBLE"
  /\ vector.size = 1 /\ vector.nullCount = 1
  /\ arrayHeap.node[1].null_count = 1

\* C19: an array exported by the bridge holds, through its holder, exactly
\* one reference to the exported vector until the caller releases it; the
\* first release drops that reference with the holder and a later release
\* drops nothing; after a failed export no holder and no reference is left.
HolderKeepsVectorAlive ==
  (arrayOp.op = "export" /\ imported.mode # "owner") =>
    LET node == arrayHeap.node[1]
        holder == arrayHeap.holder[1]
    IN IF arrayOp.ok /\ callerReleases.array = 0
       THEN /\ arrayHeap.vectorRefs = 1
            /\ node.private_data = 1 /\ node.buffers = 1
            /\ holder.state = "alive" /\ holder.destroyed = 0
            /\ holder.vector = vector
       ELSE /\ arrayHeap.vectorRefs = 0
            /\ holder.state = "destroyed" /\ holder.destroyed = 1
            /\ ~arrayHeap.ub

\* An exported vector of one element whose array was released twice.
VectorDroppedOnce ==
  /\ ExportedArray /\ imported.status = "none"
  /\ callerReleases.array = 2
  /\ arrayHeap.holder[1].vector.size = 1
  /\ arrayHeap.vectorRefs = 0

\* sizeof the native type of the kinds a flat vector is exported with.
ElementWidth ==
  [k \in FlatKinds |->
     CASE k \in {"BOOLEAN", "TINYINT"} -> 1
       [] k = "SMALLINT" -> 2
       [] k \in {"INTEGER", "REAL"} -> 4
       [] OTHER -> 8]

\* C20: the vector of a successful import, in either mode, has the array's
\* length; its values view starts at buffers[1] and spans length times the
\* element width bytes; its nulls view, when null_count is not zero, starts
\* at buffers[0] and spans the least number of bytes that hold length bits;
\* its null count is null_count, or unknown when null_count is -1.
ImportedVectorMatchesArray ==
  imported.status = "ok" =>
    LET arg == imported.arrayArg
        vec == imported.vector
    IN /\ imported.buffersArg # <<>>
       /\ imported.mode \in {"viewer", "owner"}
       /\ vec.length = arg.length
       /\ vec.values.ptr = imported.buffersArg[2]
       /\ vec.type.kind \in FlatKinds =>
            vec.values.size = arg.length * ElementWidth[vec.type.kind]
       /\ arg.null_count # 0 =>
            /\ vec.nulls.ptr = imported.buffersArg[1]
            /\ vec.nulls.size * 8 >= arg.length
            /\ (vec.nulls.size - 1) * 8 < arg.length
       /\ vec.nullCount.has_value <=> arg.null_count # -1
       /\ vec.nullCount.has_value => vec.nullCount.value = arg.null_count

\* An owner import of an array of nine elements with a nulls buffer.
ImportedNineElements ==
  /\ imported.status = "ok" /\ imported.mode = "owner"
  /\ imported.arrayArg.length = 9
  /\ imported.arrayArg.null_count = 1
  /\ imported.vector.nulls.size = 2
  /\ imported.vector.values.size = 36

\* C21: after a failed export the caller's ArrowSchema has no release
\* callback and no private_data, and its children and n_children do not
\* refer to structs that the failed call built and destroyed.
FailedExportLeavesNoTree ==
  (schemaOp = [op |-> "export", ok |-> FALSE] /\ callerReleases.schema = 0) =>
    /\ schemaHeap.node[1].release = "null"
    /\ schemaHeap.node[1].private_data = 0
    /\ \A i \in 1..schemaHeap.node[1].n_children :
         ChildPtr(schemaHeap, 1, i) \notin
           (schemaHeap.built \cap schemaHeap.freed)

\* C22: an import of an array that declares fewer than two buffers, its
\* other preconditions met, is rejected by the n_buffers check whatever is
\* behind the buffers pointer: no buffer slot is read first.
UndeclaredBuffersNotRead ==
  (/\ imported.status # "none"
   /\ imported.schemaArg.release # "null"
   /\ imported.arrayArg.release # "null"
   /\ imported.arrayArg.dictionary = 0
   /\ imported.arrayArg.n_children = 0 /\ imported.arrayArg.children = 0
   /\ imported.arrayArg.offset = 0
   /\ imported.arrayArg.length >= 0
   /\ IsPrimitiveType(schemaType)
   /\ imported.arrayArg.n_buffers < 2
   /\ imported.arrayArg.buffers = 0) =>
    imported.status = "error"

====
